---- MODULE Spec2Model ----
(***************************************************************************)
(* A model of the GLX backend of compton, src/backend/gl/glx.c: the        *)
(* FBConfig ranking and per-depth selection, backend initialisation and    *)
(* teardown, and the per-window texture binding lifecycle.                 *)
(***************************************************************************)
EXTENDS Integers, Sequences, FiniteSets, TLC

VARIABLES
    ps,         \* the session: configuration and display facts read by the backend
    fbcfgs,     \* what glXGetFBConfigs reports: a sequence of driver configs
    gd,         \* struct _glx_data of the backend, NULL before init / after free
    xserver,    \* X / GLX server side objects: contexts, named pixmaps, GLX pixmaps
    gl,         \* GL objects of the context: texture names, tex-image bindings
    heap,       \* blocks handed out by cmalloc/ccalloc and not yet freed
    wins,       \* the windows of the session (id, depth, buffer size)
    wdata,      \* per window: the struct _glx_win_data it owns, or NULL
    calls,      \* the driver calls made by the last operation, in order
    ret,        \* the last operation and what it returned
    phase,      \* "none" before glx_init, "up" while the backend lives, "down" after
    cmpIn,      \* comparator harness: the pair of configs compared
    cmpOut,     \* comparator harness: the two results
    selOut      \* selector harness: the table and result of glx_update_fbconfig

vars == <<ps, fbcfgs, gd, xserver, gl, heap, wins, wdata, calls, ret, phase, cmpIn, cmpOut, selOut>>

(***************************************************************************)
(* Program constants.                                                      *)
(***************************************************************************)
\* common.h; sizes fbconfigs[OPENGL_MAX_DEPTH + 1], and glx.c reads fbconfigs[32]
OPENGL_MAX_DEPTH == 32

NULL == [null |-> TRUE]

GLX_TEXTURE_FORMAT_NONE == "none"
GLX_TEXTURE_FORMAT_RGB_EXT == "RGB"
GLX_TEXTURE_FORMAT_RGBA_EXT == "RGBA"

(***************************************************************************)
(* Bounds of the model.                                                    *)
(***************************************************************************)
\* longest list of driver configs the selector harness enumerates
MaxCands == 3

(***************************************************************************)
(* Driver configs.  A GLXFBConfig handle is modelled by the record of the  *)
(* attributes glXGetFBConfigAttrib / glXGetVisualFromFBConfig report for   *)
(* it, plus its position in the list (id).  A failed query of an attribute *)
(* whose variable is pre-set to 0 reads as 0.                              *)
(***************************************************************************)
BaseCfg ==
    [id |-> 0, red |-> 8, rgba |-> 1, rgb |-> 1, db |-> 1, stencil |-> 8, dsize |-> 24,
     mipmap |-> 0, bufsz |-> 32, alpha |-> 8, samples |-> 0, attr_ok |-> TRUE,
     tgts_ok |-> TRUE, tgts |-> 6, hasvis |-> TRUE, vdepth |-> 32, yinv |-> 0]

glXGetFBConfigAttrib(cfg, attr) ==
    CASE attr = "GLX_RED_SIZE" -> cfg.red
      [] attr = "GLX_BIND_TO_TEXTURE_RGBA_EXT" -> cfg.rgba
      [] attr = "GLX_BIND_TO_TEXTURE_RGB_EXT" -> cfg.rgb
      [] attr = "GLX_DOUBLEBUFFER" -> cfg.db
      [] attr = "GLX_STENCIL_SIZE" -> cfg.stencil
      [] attr = "GLX_DEPTH_SIZE" -> cfg.dsize
      [] attr = "GLX_BIND_TO_MIPMAP_TEXTURE_EXT" -> cfg.mipmap
      [] attr = "GLX_BUFFER_SIZE" -> cfg.bufsz
      [] attr = "GLX_ALPHA_SIZE" -> cfg.alpha
      [] attr = "GLX_SAMPLES" -> cfg.samples
      [] attr = "GLX_BIND_TO_TEXTURE_TARGETS_EXT" -> cfg.tgts
      [] attr = "GLX_Y_INVERTED_EXT" -> cfg.yinv

(***************************************************************************)
(* The ranking comparator.                                                 *)
(***************************************************************************)
glx_cmp_fbconfig_cmpattr(pfbc_a, pfbc_b, attr) ==
    glXGetFBConfigAttrib(pfbc_a.cfg, attr) - glXGetFBConfigAttrib(pfbc_b.cfg, attr)

\* faulty variant: the LT macro returns the difference as it is
P_CMPATTR_LT_noneg(pfbc_a, pfbc_b, attr) == glx_cmp_fbconfig_cmpattr(pfbc_a, pfbc_b, attr)

\* the macros: a non-zero difference decides, negated (LT) or as is (GT)
P_CMPATTR_LT(pfbc_a, pfbc_b, attr) == 0 - glx_cmp_fbconfig_cmpattr(pfbc_a, pfbc_b, attr)

P_CMPATTR_GT(pfbc_a, pfbc_b, attr) == glx_cmp_fbconfig_cmpattr(pfbc_a, pfbc_b, attr)

\* the chain of macro uses: the first non-zero result is returned, else 0
RankChain(pfbc_a, pfbc_b) ==
    << P_CMPATTR_LT(pfbc_a, pfbc_b, "GLX_BIND_TO_TEXTURE_RGBA_EXT"),
       P_CMPATTR_LT(pfbc_a, pfbc_b, "GLX_DOUBLEBUFFER"),
       P_CMPATTR_LT(pfbc_a, pfbc_b, "GLX_STENCIL_SIZE"),
       P_CMPATTR_LT(pfbc_a, pfbc_b, "GLX_DEPTH_SIZE"),
       P_CMPATTR_GT(pfbc_a, pfbc_b, "GLX_BIND_TO_MIPMAP_TEXTURE_EXT") >>

FirstNonZero(s) ==
    IF \E i \in 1..Len(s) : s[i] # 0
    THEN s[CHOOSE i \in 1..Len(s) : s[i] # 0 /\ \A j \in 1..(i - 1) : s[j] = 0]
    ELSE 0

\* faulty variant: the check of b's red size returns -1, like the check of a's
glx_cmp_fbconfig_bneg(pfbc_a, pfbc_b) ==
    IF pfbc_a = NULL THEN -1
    ELSE IF pfbc_b = NULL THEN 1
    ELSE IF glXGetFBConfigAttrib(pfbc_a.cfg, "GLX_RED_SIZE") # 8 THEN -1
    ELSE IF glXGetFBConfigAttrib(pfbc_b.cfg, "GLX_RED_SIZE") # 8 THEN -1
    ELSE FirstNonZero(RankChain(pfbc_a, pfbc_b))

\* faulty variant: b's red size is not checked
glx_cmp_fbconfig_nobcheck(pfbc_a, pfbc_b) ==
    IF pfbc_a = NULL THEN -1
    ELSE IF pfbc_b = NULL THEN 1
    ELSE IF glXGetFBConfigAttrib(pfbc_a.cfg, "GLX_RED_SIZE") # 8 THEN -1
    ELSE FirstNonZero(RankChain(pfbc_a, pfbc_b))

\* faulty variant: a's red size is not checked
glx_cmp_fbconfig_noacheck(pfbc_a, pfbc_b) ==
    IF pfbc_a = NULL THEN -1
    ELSE IF pfbc_b = NULL THEN 1
    ELSE IF glXGetFBConfigAttrib(pfbc_b.cfg, "GLX_RED_SIZE") # 8 THEN 1
    ELSE FirstNonZero(RankChain(pfbc_a, pfbc_b))

glx_cmp_fbconfig(pfbc_a, pfbc_b) ==
    IF pfbc_a = NULL THEN -1
    ELSE IF pfbc_b = NULL THEN 1
    ELSE IF glXGetFBConfigAttrib(pfbc_a.cfg, "GLX_RED_SIZE") # 8 THEN -1
    ELSE IF glXGetFBConfigAttrib(pfbc_b.cfg, "GLX_RED_SIZE") # 8 THEN 1
    ELSE FirstNonZero(RankChain(pfbc_a, pfbc_b))

(***************************************************************************)
(* Per-depth update and the enumeration of all driver configs.             *)
(***************************************************************************)
EmptyTable == [d \in 0..OPENGL_MAX_DEPTH |-> NULL]

\* faulty variant: the sanity check of the depth is off by one at the top
glx_update_fbconfig_bydepth_offbyone(fbconfigs, depth, pfbcfg) ==
    IF depth < 0 \/ depth >= OPENGL_MAX_DEPTH THEN fbconfigs
    ELSE IF glx_cmp_fbconfig(fbconfigs[depth], pfbcfg) < 0
         THEN [fbconfigs EXCEPT ![depth] = pfbcfg]
         ELSE fbconfigs

glx_update_fbconfig_bydepth(fbconfigs, depth, pfbcfg) ==
    IF depth < 0 \/ depth > OPENGL_MAX_DEPTH THEN fbconfigs
    ELSE IF glx_cmp_fbconfig(fbconfigs[depth], pfbcfg) < 0
         THEN [fbconfigs EXCEPT ![depth] = pfbcfg]
         ELSE fbconfigs

\* one iteration of the loop over the driver's configs
fbconfig_loop_body(fbconfigs, pcur) ==
    LET fbinfo0 == [cfg |-> pcur, texture_fmt |-> GLX_TEXTURE_FORMAT_NONE,
                    texture_tgts |-> glXGetFBConfigAttrib(pcur, "GLX_BIND_TO_TEXTURE_TARGETS_EXT"),
                    y_inverted |-> (glXGetFBConfigAttrib(pcur, "GLX_Y_INVERTED_EXT") # 0)]
        depth == glXGetFBConfigAttrib(pcur, "GLX_BUFFER_SIZE")
        depth_alpha == glXGetFBConfigAttrib(pcur, "GLX_ALPHA_SIZE")
        visualdepth == pcur.vdepth
        rgba == depth >= 32 /\ depth_alpha # 0
                /\ glXGetFBConfigAttrib(pcur, "GLX_BIND_TO_TEXTURE_RGBA_EXT") # 0
        rgb == glXGetFBConfigAttrib(pcur, "GLX_BIND_TO_TEXTURE_RGB_EXT") # 0
        tgtdpt == depth - depth_alpha
        isrgb == tgtdpt = visualdepth /\ tgtdpt < 32 /\ rgb
        fbinfo1 == IF isrgb THEN [fbinfo0 EXCEPT !.texture_fmt = GLX_TEXTURE_FORMAT_RGB_EXT]
                   ELSE fbinfo0
        t1 == IF isrgb THEN glx_update_fbconfig_bydepth(fbconfigs, tgtdpt, fbinfo1)
              ELSE fbconfigs
        isrgba == depth = visualdepth /\ rgba
        fbinfo2 == [fbinfo1 EXCEPT !.texture_fmt = GLX_TEXTURE_FORMAT_RGBA_EXT]
    IN  IF glXGetFBConfigAttrib(pcur, "GLX_SAMPLES") > 1 THEN fbconfigs
        ELSE IF ~pcur.attr_ok THEN fbconfigs
        ELSE IF ~pcur.tgts_ok THEN fbconfigs
        ELSE IF ~pcur.hasvis THEN fbconfigs
        ELSE IF isrgba THEN glx_update_fbconfig_bydepth(t1, depth, fbinfo2)
        ELSE t1

RECURSIVE fbconfig_loop(_, _, _)
fbconfig_loop(fbconfigs, pfbcfgs, i) ==
    IF i > Len(pfbcfgs) THEN fbconfigs
    ELSE fbconfig_loop(fbconfig_loop_body(fbconfigs, [pfbcfgs[i] EXCEPT !.id = i]),
                       pfbcfgs, i + 1)

\* faulty variant: a missing config for depth 32 is taken for a failure as well
glx_update_fbconfig_need32(fbconfigs, pfbcfgs, ps_depth) ==
    LET t == fbconfig_loop(fbconfigs, pfbcfgs, 1)
    IN  [fbconfigs |-> t, ok |-> (t[ps_depth] # NULL /\ t[32] # NULL)]

\* the whole of glx_update_fbconfig: the filled table and the returned bool
glx_update_fbconfig(fbconfigs, pfbcfgs, ps_depth) ==
    LET t == fbconfig_loop(fbconfigs, pfbcfgs, 1)
    IN  [fbconfigs |-> t, ok |-> (t[ps_depth] # NULL)]

(***************************************************************************)
(* The conditions of the loop, as predicates of one driver config: the     *)
(* filters that skip it and the two ways it is registered under a depth.   *)
(***************************************************************************)
PassesFilters(c) == c.samples <= 1 /\ c.attr_ok /\ c.tgts_ok /\ c.hasvis

RegisteredRGB(c, d) ==
    /\ PassesFilters(c)
    /\ d = c.bufsz - c.alpha /\ d = c.vdepth /\ d < 32 /\ c.rgb # 0
    /\ d >= 0 /\ d <= OPENGL_MAX_DEPTH

RegisteredRGBA(c, d) ==
    /\ PassesFilters(c)
    /\ d = c.bufsz /\ d = c.vdepth /\ c.bufsz >= 32 /\ c.alpha # 0 /\ c.rgba # 0
    /\ d >= 0 /\ d <= OPENGL_MAX_DEPTH

RegisteredFor(c, d) == RegisteredRGB(c, d) \/ RegisteredRGBA(c, d)

(***************************************************************************)
(* The machine outside struct _glx_data: server objects, GL objects, the   *)
(* heap and the log of driver calls.  Operations are functions of a        *)
(* machine record m = [xserver, gl, heap, calls].                          *)
(***************************************************************************)
\* number of windows of the session
NWin == 2

\* named X pixmaps the server holds before xcb_generate_id is no longer tried
MaxPixmaps == 2

WinIds == 1..NWin

Call(f, a) == [f |-> f, a |-> a]

Block(kind, key) == [kind |-> kind, key |-> key]

Log(m, cs) == [m EXCEPT !.calls = @ \o cs]

\* a name / XID not in use: the least positive number that is free
Fresh(used) ==
    CHOOSE k \in 1..(Cardinality(used) + 1) :
        /\ k \notin used
        /\ \A j \in 1..(k - 1) : j \in used

\* XIDs in use on the server: windows, named pixmaps and GLX pixmaps share one space
XidsInUse(m) == WinIds \cup m.xserver.pixmaps \cup m.xserver.glpixmaps

(***************************************************************************)
(* Release and destroy of a window's binding.                              *)
(***************************************************************************)
\* faulty variant: the GLX pixmap is destroyed while the texture image is still bound to it
glx_release_pixmap_norelease(wd, m) ==
    LET m2 == IF wd.glpixmap # 0
              THEN [Log(m, << Call("glXDestroyPixmap", wd.glpixmap) >>)
                    EXCEPT !.xserver.glpixmaps = @ \ {wd.glpixmap}]
              ELSE m
    IN  [wd |-> [wd EXCEPT !.glpixmap = 0], m |-> m2]

\* returns the updated *wd and machine
glx_release_pixmap(wd, m) ==
    LET m1 == IF wd.glpixmap # 0 /\ wd.texture.texture # 0
              THEN [Log(m, << Call("glBindTexture", wd.texture.texture),
                              Call("glXReleaseTexImage", wd.glpixmap),
                              Call("glBindTexture", 0) >>)
                    EXCEPT !.gl.teximage = @ \ {wd.glpixmap}]
              ELSE m
        m2 == IF wd.glpixmap # 0
              THEN [Log(m1, << Call("glXDestroyPixmap", wd.glpixmap) >>)
                    EXCEPT !.xserver.glpixmaps = @ \ {wd.glpixmap}]
              ELSE m1
    IN  [wd |-> [wd EXCEPT !.glpixmap = 0], m |-> m2]

\* returns the machine after the binding of window w is destroyed
glx_release_win(w, wd, m) ==
    LET r == glx_release_pixmap(wd, m)
        m1 == [Log(r.m, << Call("glDeleteTextures", r.wd.texture.texture) >>)
               EXCEPT !.gl.textures = @ \ {r.wd.texture.texture}]
    IN  [m1 EXCEPT !.heap = @ \ {Block("wd", w.id)}]

\* the body is commented out in the source: nothing is released
free_win_res_glx(w, m) == m

(***************************************************************************)
(* Teardown.                                                               *)
(***************************************************************************)
RECURSIVE free_all_win_res(_, _)
free_all_win_res(ws, m) ==
    IF ws = {} THEN m
    ELSE LET w == CHOOSE x \in ws : \A y \in ws : x.id <= y.id
         IN  free_all_win_res(ws \ {w}, free_win_res_glx(w, m))

\* the loop free(gd->fbconfigs[i]); gd->fbconfigs[i] = NULL over every depth
free_fbconfigs(gdv, m) ==
    LET filled == {d \in 0..OPENGL_MAX_DEPTH : gdv.fbconfigs[d] # NULL}
        gd1 == [gdv EXCEPT !.fbconfigs = [d \in 0..OPENGL_MAX_DEPTH |-> NULL]]
    IN  [gd |-> gd1,
         m |-> [Log(m, << [f |-> "free_fbconfigs", a |-> Cardinality(filled),
                           freed |-> filled,
                           left |-> {d \in 0..OPENGL_MAX_DEPTH : gd1.fbconfigs[d] # NULL}] >>)
                EXCEPT !.heap = @ \ {Block("fbconfig", d) : d \in filled}]]

\* faulty variant: glXDestroyContext is called without the check of gd->ctx
destroy_context_unguarded(gdv, m) ==
    [gd |-> [gdv EXCEPT !.ctx = 0],
     m |-> [Log(m, << Call("glXDestroyContext", gdv.ctx) >>)
            EXCEPT !.xserver.contexts = @ \ {gdv.ctx}]]

destroy_context(gdv, m) ==
    IF gdv.ctx # 0
    THEN [gd |-> [gdv EXCEPT !.ctx = 0],
          m |-> [Log(m, << Call("glXDestroyContext", gdv.ctx) >>)
                 EXCEPT !.xserver.contexts = @ \ {gdv.ctx}]]
    ELSE [gd |-> gdv, m |-> m]

\* returns the machine after glx_deinit(gd, ps); gd itself is freed
glx_deinit_fn(gdv, winset, m) ==
    LET m1 == free_all_win_res(winset, m)
        m2 == Log(m1, << Call("gl_free_blur_shader", 0), Call("gl_free_prog_main", 0) >>)
        r3 == free_fbconfigs(gdv, m2)
        r4 == destroy_context(r3.gd, r3.m)
    IN  [r4.m EXCEPT !.heap = @ \ {Block("gd", 0)}]

(***************************************************************************)
(* Creation of a window's binding.                                         *)
(***************************************************************************)
GLX_TEXTURE_2D_BIT_EXT == {"2D"}

GLX_TEXTURE_RECTANGLE_BIT_EXT == {"RECT"}

\* texture_tgts is a bit mask, modelled as the set of its bits
TgtBits(mask) ==
    (IF mask % 2 = 1 THEN {"1D"} ELSE {})
    \cup (IF (mask \div 2) % 2 = 1 THEN GLX_TEXTURE_2D_BIT_EXT ELSE {})
    \cup (IF (mask \div 4) % 2 = 1 THEN GLX_TEXTURE_RECTANGLE_BIT_EXT ELSE {})

\* faulty variant: without non-power-of-two textures the rectangle target is taken
\* even from a config that binds to 2D textures only
choose_tex_tgt_npotonly(pcfg, cap_npot) ==
    IF GLX_TEXTURE_2D_BIT_EXT \cap TgtBits(pcfg.texture_tgts) # {} /\ cap_npot
    THEN "GLX_TEXTURE_2D_EXT"
    ELSE "GLX_TEXTURE_RECTANGLE_EXT"

choose_tex_tgt(pcfg, cap_npot) ==
    IF GLX_TEXTURE_2D_BIT_EXT \cap TgtBits(pcfg.texture_tgts) # {} /\ cap_npot
    THEN "GLX_TEXTURE_2D_EXT"
    ELSE IF GLX_TEXTURE_RECTANGLE_BIT_EXT \cap TgtBits(pcfg.texture_tgts) # {}
    THEN "GLX_TEXTURE_RECTANGLE_EXT"
    ELSE IF GLX_TEXTURE_2D_BIT_EXT \cap TgtBits(pcfg.texture_tgts) = {}
    THEN "GLX_TEXTURE_RECTANGLE_EXT"
    ELSE "GLX_TEXTURE_2D_EXT"

\* faulty variant: the err: label forgets the GLX pixmap
prepare_win_err_leak(w, wd, m) ==
    LET m1 == IF wd.pixmap # 0 /\ wd.pixmap # w.id
              THEN [Log(m, << Call("xcb_free_pixmap", wd.pixmap) >>)
                    EXCEPT !.xserver.pixmaps = @ \ {wd.pixmap}]
              ELSE m
    IN  [m1 EXCEPT !.heap = @ \ {Block("wd", w.id)}]

\* the err: label; returns the machine after the partial binding is unwound
prepare_win_err(w, wd, m) ==
    LET m1 == IF wd.pixmap # 0 /\ wd.pixmap # w.id
              THEN [Log(m, << Call("xcb_free_pixmap", wd.pixmap) >>)
                    EXCEPT !.xserver.pixmaps = @ \ {wd.pixmap}]
              ELSE m
        m2 == IF wd.glpixmap # 0
              THEN [Log(m1, << Call("glXDestroyPixmap", wd.glpixmap) >>)
                    EXCEPT !.xserver.glpixmaps = @ \ {wd.glpixmap}]
              ELSE m1
    IN  [m2 EXCEPT !.heap = @ \ {Block("wd", w.id)}]

\* the pixmap identity: a generated XID named for the window, or the window's own id.
\* drv.xid is what xcb_generate_id returns (0: none, or not called)
prepare_win_pixmap(psv, w, wd, drv, m) ==
    IF psv.has_name_pixmap
    THEN [wd |-> [wd EXCEPT !.pixmap = drv.xid],
          m |-> [Log(m, << Call("xcb_generate_id", drv.xid),
                           Call("xcb_composite_name_window_pixmap", drv.xid) >>)
                 EXCEPT !.xserver.pixmaps = IF drv.xid # 0 THEN @ \cup {drv.xid} ELSE @]]
    ELSE [wd |-> [wd EXCEPT !.pixmap = w.id], m |-> m]

\* glXCreatePixmap: drv.glpixmap is the GLXPixmap it returns (0: failure)
prepare_win_glpixmap(wd, tex_tgt, drv, m) ==
    [wd |-> [wd EXCEPT !.glpixmap = drv.glpixmap],
     m |-> [Log(m, << [f |-> "glXCreatePixmap", a |-> wd.pixmap, tgt |-> tex_tgt] >>)
            EXCEPT !.xserver.glpixmaps = IF drv.glpixmap # 0 THEN @ \cup {drv.glpixmap} ELSE @]]

\* faulty variant: a texture name of 0 is not taken for a failure
prepare_win_texture_nocheck(w, wd, drv, m) ==
    [ok |-> TRUE,
     wd |-> [wd EXCEPT !.texture.texture = drv.texture,
                       !.texture.width = w.widthb,
                       !.texture.height = w.heightb],
     m |-> [Log(m, << Call("glGenTextures", drv.texture) >>)
            EXCEPT !.gl.textures = IF drv.texture # 0 THEN @ \cup {drv.texture} ELSE @]]

\* glGenTextures and the sampling parameters: drv.texture is the name (0: failure)
prepare_win_texture(w, wd, drv, m) ==
    IF drv.texture = 0
    THEN [ok |-> FALSE, wd |-> wd, m |-> Log(m, << Call("glGenTextures", 0) >>)]
    ELSE [ok |-> TRUE,
          wd |-> [wd EXCEPT !.texture.texture = drv.texture,
                            !.texture.width = w.widthb,
                            !.texture.height = w.heightb],
          m |-> [Log(m, << Call("glGenTextures", drv.texture),
                           Call("glBindTexture", drv.texture),
                           Call("glTexParameteri", drv.texture),
                           Call("glBindTexture", 0) >>)
                 EXCEPT !.gl.textures = @ \cup {drv.texture}]]

\* the whole of glx_prepare_win: [ret: the binding or NULL, m: the machine after]
glx_prepare_win_fn(gdv, psv, w, drv, m) ==
    IF w.depth > OPENGL_MAX_DEPTH THEN [ret |-> NULL, m |-> m]
    ELSE IF gdv.fbconfigs[w.depth] = NULL THEN [ret |-> NULL, m |-> m]
    ELSE
    LET pcfg == gdv.fbconfigs[w.depth]
        tex_tgt == choose_tex_tgt(pcfg, gdv.cap_npot)
        wd0 == [texture |-> [texture |-> 0,
                             target |-> IF tex_tgt = "GLX_TEXTURE_2D_EXT"
                                        THEN "GL_TEXTURE_2D" ELSE "GL_TEXTURE_RECTANGLE",
                             y_inverted |-> pcfg.y_inverted,
                             width |-> 0, height |-> 0],
                glpixmap |-> 0, pixmap |-> 0]
        m0 == [m EXCEPT !.heap = @ \cup {Block("wd", w.id)}]
        r1 == prepare_win_pixmap(psv, w, wd0, drv, m0)
        r2 == prepare_win_glpixmap(r1.wd, tex_tgt, drv, r1.m)
        r3 == prepare_win_texture(w, r2.wd, drv, r2.m)
    IN  IF r1.wd.pixmap = 0 THEN [ret |-> NULL, m |-> prepare_win_err(w, r1.wd, r1.m)]
        ELSE IF r2.wd.glpixmap = 0 THEN [ret |-> NULL, m |-> prepare_win_err(w, r2.wd, r2.m)]
        ELSE IF ~r3.ok THEN [ret |-> NULL, m |-> prepare_win_err(w, r3.wd, r3.m)]
        ELSE [ret |-> r3.wd, m |-> r3.m]

(***************************************************************************)
(* Refresh / bind.                                                         *)
(***************************************************************************)
\* the three assert()s at the head of glx_render_win
render_win_asserts(wd) == wd.pixmap # 0 /\ wd.glpixmap # 0 /\ wd.texture.texture # 0

glx_render_win_fn(wd, m) ==
    [Log(m, << Call("glBindTexture", wd.texture.texture),
               Call("glXBindTexImage", wd.glpixmap),
               Call("glBindTexture", 0) >>)
     EXCEPT !.gl.teximage = @ \cup {wd.glpixmap}]

(***************************************************************************)
(* Initialisation.  drv.fail names the first driver query that fails       *)
(* ("none": all succeed), drv.npot is the non-power-of-two capability.     *)
(* xserver.contexts holds the contexts created and not yet handed to       *)
(* glXDestroyContext.                                                      *)
(***************************************************************************)
InitFailPoints ==
    {"glXQueryExtension", "XGetVisualInfo", "GLX_USE_GL", "GLX_DOUBLEBUFFER",
     "GLX_EXT_texture_from_pixmap", "glXCreateContext", "glXMakeCurrent",
     "GL_STENCIL_BITS", "glXBindTexImageEXT", "glXReleaseTexImageEXT"}

InitResult(success, gdv, m) == [success |-> success, gd |-> gdv, m |-> m]

\* faulty variant: the configs are selected before the entry points are looked at
glx_init_tail_selfirst(psv, cfgs, drv, gdv, m) ==
    LET sel == glx_update_fbconfig(gdv.fbconfigs, cfgs, psv.depth)
        filled == {d \in 0..OPENGL_MAX_DEPTH : sel.fbconfigs[d] # NULL}
        gd1 == [gdv EXCEPT !.fbconfigs = sel.fbconfigs,
                           !.glXBindTexImage = (drv.fail # "glXBindTexImageEXT"),
                           !.glXReleaseTexImage = (drv.fail # "glXReleaseTexImageEXT")]
        m1 == [Log(m, << Call("glXGetFBConfigs", Len(cfgs)),
                         Call("glXGetProcAddress", IF gd1.glXBindTexImage THEN 1 ELSE 0),
                         Call("glXGetProcAddress", IF gd1.glXReleaseTexImage THEN 1 ELSE 0) >>)
               EXCEPT !.heap = @ \cup {Block("fbconfig", d) : d \in filled}]
    IN  IF ~gd1.glXBindTexImage \/ ~gd1.glXReleaseTexImage \/ ~sel.ok
        THEN InitResult(FALSE, gd1, m1)
        ELSE InitResult(TRUE, gd1, Log(m1, << Call("gl_resize", 0), Call("glDisable", 0) >>))

\* from the entry-point resolution to success = true
glx_init_tail(psv, cfgs, drv, gdv, m) ==
    LET gd1 == [gdv EXCEPT !.glXBindTexImage = (drv.fail # "glXBindTexImageEXT"),
                           !.glXReleaseTexImage = (drv.fail # "glXReleaseTexImageEXT")]
        m1 == Log(m, << Call("glXGetProcAddress", IF gd1.glXBindTexImage THEN 1 ELSE 0),
                        Call("glXGetProcAddress", IF gd1.glXReleaseTexImage THEN 1 ELSE 0) >>)
        sel == glx_update_fbconfig(gd1.fbconfigs, cfgs, psv.depth)
        gd2 == [gd1 EXCEPT !.fbconfigs = sel.fbconfigs]
        filled == {d \in 0..OPENGL_MAX_DEPTH : sel.fbconfigs[d] # NULL}
        m2 == [Log(m1, << Call("glXGetFBConfigs", Len(cfgs)) >>)
               EXCEPT !.heap = @ \cup {Block("fbconfig", d) : d \in filled}]
    IN  IF ~gd1.glXBindTexImage \/ ~gd1.glXReleaseTexImage THEN InitResult(FALSE, gd1, m1)
        ELSE IF ~sel.ok THEN InitResult(FALSE, gd2, m2)
        ELSE InitResult(TRUE, gd2,
                        Log(m2, << Call("gl_resize", 0), Call("glDisable", 0) >>))

\* from context creation to the capability detection
glx_init_context(psv, cfgs, drv, gdv, m) ==
    LET ctx == IF drv.fail = "glXCreateContext" THEN 0 ELSE Fresh(m.xserver.contexts)
        gd1 == [gdv EXCEPT !.ctx = ctx]
        m1 == [Log(m, << Call("glXCreateContext", ctx) >>)
               EXCEPT !.xserver.contexts = IF ctx # 0 THEN @ \cup {ctx} ELSE @]
        tgt == IF psv.overlay # 0 THEN psv.overlay ELSE psv.root
        m2 == Log(m1, << Call("glXMakeCurrent", tgt) >>)
        m3 == IF drv.fail # "glXMakeCurrent" THEN [m2 EXCEPT !.xserver.current = ctx] ELSE m2
        m4 == IF ~psv.glx_no_stencil THEN Log(m3, << Call("glGetIntegerv", 0) >>) ELSE m3
        gd5 == [gd1 EXCEPT !.cap_npot = drv.npot]
        m5 == Log(m4, << Call("gl_has_extension", IF drv.npot THEN 1 ELSE 0) >>)
    IN  IF ctx = 0 THEN InitResult(FALSE, gd1, m1)
        ELSE IF drv.fail = "glXMakeCurrent" THEN InitResult(FALSE, gd1, m2)
        ELSE IF ~psv.glx_no_stencil /\ drv.fail = "GL_STENCIL_BITS"
             THEN InitResult(FALSE, gd1, m4)
        ELSE glx_init_tail(psv, cfgs, drv, gd5, m5)

\* the checks before the context is created; pvis is a block XFree releases at end:
glx_init_body(psv, cfgs, drv, gdv, m) ==
    LET mA == Log(m, << Call("glXQueryExtension", 0) >>)
        mB == Log(mA, << Call("XGetVisualInfo", 0) >>)
        mV == [mB EXCEPT !.heap = @ \cup {Block("pvis", 0)}]
        mC == Log(mV, << Call("glXGetConfig", 0) >>)
        mD == Log(mC, << Call("glXGetConfig", 1) >>)
        mE == Log(mD, << Call("glXQueryExtensionsString", 0) >>)
    IN  IF drv.fail = "glXQueryExtension" THEN InitResult(FALSE, gdv, mA)
        ELSE IF drv.fail = "XGetVisualInfo" THEN InitResult(FALSE, gdv, mB)
        ELSE IF drv.fail = "GLX_USE_GL" THEN InitResult(FALSE, gdv, mC)
        ELSE IF drv.fail = "GLX_DOUBLEBUFFER" THEN InitResult(FALSE, gdv, mD)
        ELSE IF drv.fail = "GLX_EXT_texture_from_pixmap" THEN InitResult(FALSE, gdv, mE)
        ELSE glx_init_context(psv, cfgs, drv, gdv, mE)

\* faulty variant: a failed init returns NULL without tearing down
glx_init_end_noteardown(r, winset) ==
    LET m1 == [r.m EXCEPT !.heap = @ \ {Block("pvis", 0)}]
    IN  IF ~r.success THEN [ret |-> NULL, m |-> m1]
        ELSE [ret |-> r.gd, m |-> m1]

\* the end: label: pvis is released, and a failed init tears down and returns NULL
glx_init_end(r, winset) ==
    LET m1 == [r.m EXCEPT !.heap = @ \ {Block("pvis", 0)}]
    IN  IF ~r.success THEN [ret |-> NULL, m |-> glx_deinit_fn(r.gd, winset, m1)]
        ELSE [ret |-> r.gd, m |-> m1]

\* the whole of glx_init: [ret: the new struct _glx_data or NULL, m: the machine after]
glx_init_fn(psv, cfgs, winset, drv, m) ==
    LET gd0 == [ctx |-> 0, cap_npot |-> FALSE, glXBindTexImage |-> FALSE,
                glXReleaseTexImage |-> FALSE, fbconfigs |-> EmptyTable]
        m0 == [m EXCEPT !.heap = @ \cup {Block("gd", 0)}]
    IN  glx_init_end(glx_init_body(psv, cfgs, drv, gd0, m0), winset)

(***************************************************************************)
(* Compose.  A region is a sequence of rectangles [x1, y1, x2, y2].        *)
(***************************************************************************)
\* faulty variant: the two edges are flipped but not exchanged
yflip_rect_noswap(root_height, r) ==
    [r EXCEPT !.y1 = root_height - r.y1, !.y2 = root_height - r.y2]

\* faulty variant: the new bottom edge is one row short
yflip_rect_offbyone(root_height, r) ==
    [r EXCEPT !.y1 = root_height - r.y2, !.y2 = root_height - r.y1 - 1]

\* one iteration of the loop over the rectangles of region_yflipped
yflip_rect(root_height, r) ==
    [r EXCEPT !.y1 = root_height - r.y2, !.y2 = root_height - r.y1]

\* the loop over the nrects rectangles
yflip_region(root_height, region) ==
    [i \in 1..Len(region) |-> yflip_rect(root_height, region[i])]

\* the arguments glx_compose hands to gl_compose, region_yflipped among them
glx_compose_args(psv, w, wd, dst_x, dst_y, region_yflipped) ==
    [f |-> "gl_compose", a |-> wd.texture.texture, target |-> wd.texture.target,
     ptex |-> wd.texture, dst_x |-> dst_x, dst_y |-> psv.root_height - dst_y - w.heightb,
     width |-> w.widthb, height |-> w.heightb,
     region |-> region_yflipped]

\* the rectangle storage pixman_region32_copy allocates for a copy of more than
\* one rectangle, released by pixman_region32_fini
region_data(region) == IF Len(region) > 1 THEN {Block("region_yflipped", 0)} ELSE {}

\* faulty variant: the region and the offset are flipped only for a binding whose
\* y_inverted is false
glx_compose_fn_ifnotinverted(psv, w, wd, dst_x, dst_y, region, m) ==
    LET m1 == [m EXCEPT !.heap = @ \cup region_data(region)]
        region_yflipped == IF wd.texture.y_inverted THEN region
                           ELSE yflip_region(psv.root_height, region)
        args == glx_compose_args(psv, w, wd, dst_x, dst_y, region_yflipped)
        m2 == Log(m1, << IF wd.texture.y_inverted THEN [args EXCEPT !.dst_y = dst_y]
                         ELSE args >>)
        m3 == [m2 EXCEPT !.heap = @ \ region_data(region_yflipped)]
    IN  [m |-> m3, region |-> region, wd |-> wd]

\* faulty variant: the caller's region is flipped in place, without a copy
glx_compose_fn_inplace(psv, w, wd, dst_x, dst_y, region, m) ==
    LET flipped == yflip_region(psv.root_height, region)
    IN  [m |-> Log(m, << glx_compose_args(psv, w, wd, dst_x, dst_y, flipped) >>),
         region |-> flipped, wd |-> wd]

\* the whole of glx_compose: the machine after, and *region and *wd as the caller
\* finds them after the call
glx_compose_fn(psv, w, wd, dst_x, dst_y, region, m) ==
    LET m1 == [m EXCEPT !.heap = @ \cup region_data(region)]
        region_yflipped == yflip_region(psv.root_height, region)
        m2 == Log(m1, << glx_compose_args(psv, w, wd, dst_x, dst_y, region_yflipped) >>)
        m3 == [m2 EXCEPT !.heap = @ \ region_data(region_yflipped)]
    IN  [m |-> m3, region |-> region, wd |-> wd]

(***************************************************************************)
(* Present and buffer age.  An unsigned int is modelled by its two 16-bit  *)
(* halves [hi, lo]; (int) reads the same 32 bits in two's complement.      *)
(***************************************************************************)
SWAPM_BUFFER_AGE == "SWAPM_BUFFER_AGE"

int_of_uint(v) ==
    IF v.hi < 32768 THEN v.hi * 65536 + v.lo ELSE (v.hi - 65536) * 65536 + v.lo

\* get_tgt_window(ps), and the drawable glx_present swaps
get_tgt_window(psv) == IF psv.overlay # 0 THEN psv.overlay ELSE psv.root

\* faulty variant: the age is returned as it is, without the ?: -1
glx_buffer_age_fn_nosentinel(psv, drv) ==
    IF psv.glx_swap_method = SWAPM_BUFFER_AGE
    THEN int_of_uint(IF drv.wrote THEN drv.val ELSE drv.stack)
    ELSE -1

\* drv.wrote: glXQueryDrawable stored the age drv.val into val; if it did not, val
\* is read uninitialised and holds whatever the stack held (drv.stack)
glx_buffer_age_fn(psv, drv) ==
    IF psv.glx_swap_method = SWAPM_BUFFER_AGE
    THEN LET val == IF drv.wrote THEN drv.val ELSE drv.stack
         IN  IF int_of_uint(val) # 0 THEN int_of_uint(val) ELSE -1
    ELSE -1

(***************************************************************************)
(* The state machine of the backend's life: init, then per-window create,  *)
(* refresh, compose and destroy in any order, then deinit.                 *)
(***************************************************************************)
Machine == [xserver |-> xserver, gl |-> gl, heap |-> heap, calls |-> << >>]

SetMachine(m) ==
    /\ xserver' = m.xserver
    /\ gl' = m.gl
    /\ heap' = m.heap
    /\ calls' = m.calls

\* arg: the driver outcomes the operation met
Ret(op, w, arg, val) == [op |-> op, w |-> w, arg |-> arg, val |-> val]

WinSet == {wins[i] : i \in WinIds}

Cfg24 == [BaseCfg EXCEPT !.bufsz = 24, !.alpha = 0, !.vdepth = 24, !.rgba = 0]

Cfg24Rect == [Cfg24 EXCEPT !.tgts = 4, !.yinv = 1]

Cfg32 == [BaseCfg EXCEPT !.tgts = 2]

Cfg30 == [BaseCfg EXCEPT !.red = 10, !.alpha = 2, !.vdepth = 30, !.rgba = 0]

\* the config lists the display may report in the life-cycle specification
DriverLists ==
    { << Cfg24, Cfg32 >>, << Cfg24Rect, Cfg30 >>, << Cfg32 >>, << Cfg30, Cfg32, Cfg24 >> }

WinDepths == {24, 32, 33}

RegionInputs ==
    { << >>, << [x1 |-> 0, y1 |-> 0, x2 |-> 10, y2 |-> 20] >> }

\* the sessions of the life-cycle specification: every combination of the options
Sessions ==
    { [has_name_pixmap |-> n, glx_no_stencil |-> st, overlay |-> ov, root |-> 9,
       depth |-> 24, root_height |-> 100, glx_swap_method |-> "SWAPM_UNDEFINED"] :
        n \in BOOLEAN, st \in BOOLEAN, ov \in {0, 7} }

HarnessIdle == cmpIn = NULL /\ cmpOut = NULL /\ selOut = NULL

Init ==
    /\ ps \in Sessions
    /\ fbcfgs \in DriverLists
    /\ gd = NULL
    /\ xserver = [contexts |-> {}, current |-> 0, pixmaps |-> {}, glpixmaps |-> {}]
    /\ gl = [textures |-> {}, teximage |-> {}]
    /\ heap = {}
    /\ \E dep \in [WinIds -> WinDepths] :
           /\ dep[1] = 24
           /\ wins = [i \in WinIds |->
                         [id |-> i, depth |-> dep[i], widthb |-> 30, heightb |-> 40]]
    /\ wdata = [i \in WinIds |-> NULL]
    /\ calls = << >>
    /\ ret = Ret("start", 0, NULL, NULL)
    /\ phase = "none"
    /\ HarnessIdle

UnchangedSession == UNCHANGED <<ps, fbcfgs, wins, cmpIn, cmpOut, selOut>>

glx_init ==
    /\ phase = "none"
    /\ \E fail \in InitFailPoints \cup {"none"}, npot \in BOOLEAN :
         LET drv == [fail |-> fail, npot |-> npot]
             r == glx_init_fn(ps, fbcfgs, WinSet, drv, Machine)
         IN  /\ gd' = r.ret
             /\ SetMachine(r.m)
             /\ ret' = Ret("glx_init", 0, drv, r.ret)
             /\ phase' = IF r.ret = NULL THEN "down" ELSE "up"
    /\ UNCHANGED wdata
    /\ UnchangedSession

\* the driver outcomes are drawn for the calls the code reaches: a call that is not
\* made has outcome 0
glx_prepare_win(i) ==
    /\ phase = "up"
    /\ wdata[i] = NULL
    /\ ps.has_name_pixmap => Cardinality(xserver.pixmaps) < MaxPixmaps
    /\ LET early == wins[i].depth > OPENGL_MAX_DEPTH \/ gd.fbconfigs[wins[i].depth] = NULL
           xids == IF early \/ ~ps.has_name_pixmap THEN {0}
                   ELSE {0, Fresh(XidsInUse(Machine))}
       IN  \E xid \in xids :
           \E glpixmap \in (IF early \/ (ps.has_name_pixmap /\ xid = 0) THEN {0}
                            ELSE {0, Fresh(XidsInUse(Machine) \cup {xid})}) :
           \E texture \in (IF glpixmap = 0 THEN {0} ELSE {0, Fresh(gl.textures)}) :
             LET drv == [xid |-> xid, glpixmap |-> glpixmap, texture |-> texture]
                 r == glx_prepare_win_fn(gd, ps, wins[i], drv, Machine)
             IN  /\ wdata' = [wdata EXCEPT ![i] = r.ret]
                 /\ SetMachine(r.m)
                 /\ ret' = Ret("glx_prepare_win", i, drv, r.ret)
    /\ UNCHANGED <<gd, phase>>
    /\ UnchangedSession

glx_render_win(i) ==
    /\ phase = "up"
    /\ wdata[i] # NULL
    /\ IF render_win_asserts(wdata[i])
       THEN /\ SetMachine(glx_render_win_fn(wdata[i], Machine))
            /\ ret' = Ret("glx_render_win", i, NULL, NULL)
       ELSE /\ SetMachine(Machine)
            /\ ret' = Ret("glx_render_win", i, NULL, [abort |-> TRUE])
    /\ UNCHANGED <<gd, phase, wdata>>
    /\ UnchangedSession

\* Compose of window i with the offsets and the clip region drawn from the given
\* sets; fed: the regions the caller takes from the output of the Compose before.
\* ret.arg keeps the arguments of the call, ret.val the caller's region after it
glx_compose_with(i, dsts_x, dsts_y, regions, fed) ==
    /\ phase = "up"
    /\ wdata[i] # NULL
    /\ \E dst_x \in dsts_x, dst_y \in dsts_y,
          src \in {[region |-> q, prev |-> NULL] : q \in regions} \cup fed :
         LET r == glx_compose_fn(ps, wins[i], wdata[i], dst_x, dst_y, src.region, Machine)
         IN  /\ SetMachine(r.m)
             /\ wdata' = [wdata EXCEPT ![i] = r.wd]
             /\ ret' = Ret("glx_compose", i,
                           [dst_x |-> dst_x, dst_y |-> dst_y, region |-> src.region,
                            prev |-> src.prev, w |-> wins[i], wd |-> wdata[i]],
                           [region |-> r.region])
    /\ UNCHANGED <<gd, phase>>
    /\ UnchangedSession

glx_compose(i) == glx_compose_with(i, {0}, {0, 5}, RegionInputs, {})

\* the window list drops its pointer to the freed binding
glx_release_win_act(i) ==
    /\ phase = "up"
    /\ wdata[i] # NULL
    /\ SetMachine(glx_release_win(wins[i], wdata[i], Machine))
    /\ wdata' = [wdata EXCEPT ![i] = NULL]
    /\ ret' = Ret("glx_release_win", i, wdata[i], NULL)
    /\ UNCHANGED <<gd, phase>>
    /\ UnchangedSession

glx_deinit ==
    /\ phase = "up"
    /\ SetMachine(glx_deinit_fn(gd, WinSet, Machine))
    /\ gd' = NULL
    /\ ret' = Ret("glx_deinit", 0, gd, NULL)
    /\ phase' = "down"
    /\ UNCHANGED wdata
    /\ UnchangedSession

Next ==
    \/ glx_init
    \/ \E i \in WinIds : glx_prepare_win(i)
    \/ \E i \in WinIds : glx_render_win(i)
    \/ \E i \in WinIds : glx_compose(i)
    \/ \E i \in WinIds : glx_release_win_act(i)
    \/ glx_deinit

Spec == Init /\ [][Next]_vars

(***************************************************************************)
(* Harness for the comparator: the pair is drawn at the start and          *)
(* glx_cmp_fbconfig is applied to it in both orders.                       *)
(***************************************************************************)
IdleBackend ==
    /\ gd = NULL
    /\ xserver = [contexts |-> {}, current |-> 0, pixmaps |-> {}, glpixmaps |-> {}]
    /\ gl = [textures |-> {}, teximage |-> {}]
    /\ heap = {}
    /\ wins = [i \in WinIds |-> [id |-> i, depth |-> 24, widthb |-> 30, heightb |-> 40]]
    /\ wdata = [i \in WinIds |-> NULL]
    /\ calls = << >>
    /\ ret = Ret("start", 0, NULL, NULL)
    /\ phase = "none"

DefaultSession ==
    [has_name_pixmap |-> TRUE, glx_no_stencil |-> FALSE, overlay |-> 0, root |-> 9,
     depth |-> 24, root_height |-> 100, glx_swap_method |-> "SWAPM_UNDEFINED"]

FbInfo(cfg) ==
    [cfg |-> cfg, texture_fmt |-> GLX_TEXTURE_FORMAT_RGB_EXT,
     texture_tgts |-> cfg.tgts, y_inverted |-> FALSE]

\* configs over every combination of the red size and the five ranked attributes
CmpCfgs ==
    { [BaseCfg EXCEPT !.red = r, !.rgba = a, !.db = b, !.stencil = st, !.dsize = dz,
                      !.mipmap = mm] :
        r \in {8, 10}, a \in {0, 1}, b \in {0, 1}, st \in {0, 8}, dz \in {0, 16, 24},
        mm \in {0, 1} }

CmpInputs == {NULL} \cup {FbInfo(c) : c \in CmpCfgs}

InitCmp ==
    /\ ps = DefaultSession
    /\ fbcfgs = << >>
    /\ IdleBackend
    /\ cmpIn \in [a : CmpInputs, b : CmpInputs]
    /\ cmpOut = NULL
    /\ selOut = NULL

CmpRun ==
    /\ cmpOut = NULL
    /\ cmpOut' = [ab |-> glx_cmp_fbconfig(cmpIn.a, cmpIn.b),
                  ba |-> glx_cmp_fbconfig(cmpIn.b, cmpIn.a)]
    /\ UNCHANGED <<ps, fbcfgs, gd, xserver, gl, heap, wins, wdata, calls, ret, phase,
                   cmpIn, selOut>>

NextCmp == CmpRun

SpecCmp == InitCmp /\ [][NextCmp]_vars

(***************************************************************************)
(* Harness for the selector: the display's config list and default depth   *)
(* are drawn at the start and glx_update_fbconfig fills an empty table.    *)
(***************************************************************************)
\* depth-24 RGB candidates, 8-bit and 10-bit red, of differing rank
Pool24 ==
    { [Cfg24 EXCEPT !.red = r, !.stencil = st, !.mipmap = mm] :
        r \in {8, 10}, st \in {0, 8}, mm \in {0, 1} }

\* depth-32 RGBA candidates
Pool32 == { [BaseCfg EXCEPT !.red = r] : r \in {8, 10} }

\* candidates one of the filters of the loop rejects, and the mixed ones
PoolOdd ==
    { [Cfg24 EXCEPT !.samples = 4],
      [Cfg24 EXCEPT !.attr_ok = FALSE],
      [Cfg24 EXCEPT !.tgts_ok = FALSE],
      [Cfg24 EXCEPT !.hasvis = FALSE],
      [Cfg24 EXCEPT !.rgb = 0],
      [BaseCfg EXCEPT !.vdepth = 24],
      [BaseCfg EXCEPT !.alpha = 0],
      [BaseCfg EXCEPT !.rgba = 0],
      Cfg30 }

CandPool == Pool24 \cup Pool32 \cup PoolOdd

RECURSIVE SeqsUpTo(_, _)
SeqsUpTo(S, n) ==
    IF n = 0 THEN { << >> }
    ELSE LET shorter == SeqsUpTo(S, n - 1)
         IN  shorter \cup { Append(q, x) : q \in shorter, x \in S }

InitSel ==
    /\ ps \in { [DefaultSession EXCEPT !.depth = d] : d \in {24, 32} }
    /\ fbcfgs \in SeqsUpTo(CandPool, MaxCands)
    /\ IdleBackend
    /\ cmpIn = NULL
    /\ cmpOut = NULL
    /\ selOut = NULL

\* every driver query of glx_init succeeds: only the selection can make it fail
AllQueriesSucceed == [fail |-> "none", npot |-> TRUE]

\* selection on an empty table, and glx_init of the same display (init: whether it
\* returned a struct _glx_data)
SelRun ==
    /\ selOut = NULL
    /\ LET r == glx_update_fbconfig(EmptyTable, fbcfgs, ps.depth)
       IN  selOut' = [fbconfigs |-> r.fbconfigs, ok |-> r.ok,
                      init |-> (glx_init_fn(ps, fbcfgs, {}, AllQueriesSucceed,
                                            [xserver |-> xserver, gl |-> gl, heap |-> heap,
                                             calls |-> << >>]).ret # NULL)]
    /\ UNCHANGED <<ps, fbcfgs, gd, xserver, gl, heap, wins, wdata, calls, ret, phase,
                   cmpIn, cmpOut>>

NextSel == SelRun

SpecSel == InitSel /\ [][NextSel]_vars

(***************************************************************************)
(* Harness for the ranking within one depth: the selector runs on lists of *)
(* depth-24 candidates that differ in every ranked attribute.              *)
(***************************************************************************)
\* 8-bit candidates over double-buffering, stencil size and mipmap support; ones
\* with RGBA-bind support and with a smaller depth buffer; a 10-bit candidate
RankPool ==
    { [Cfg24 EXCEPT !.db = b, !.stencil = st, !.mipmap = mm] :
        b \in {0, 1}, st \in {0, 8}, mm \in {0, 1} }
    \cup { [Cfg24 EXCEPT !.rgba = 1, !.db = 0, !.stencil = 0, !.mipmap = 1],
           [Cfg24 EXCEPT !.dsize = 16],
           [Cfg24 EXCEPT !.dsize = 16, !.stencil = 0, !.mipmap = 1],
           [Cfg24 EXCEPT !.red = 10, !.db = 0, !.stencil = 0, !.dsize = 16, !.mipmap = 1] }

InitRank ==
    /\ ps = DefaultSession
    /\ fbcfgs \in SeqsUpTo(RankPool, MaxCands)
    /\ IdleBackend
    /\ HarnessIdle

NextRank == SelRun

SpecRank == InitRank /\ [][NextRank]_vars

(***************************************************************************)
(* Harness for the per-frame queries of a live backend: present and        *)
(* buffer age, under every swap method and driver-reported age.            *)
(***************************************************************************)
SwapMethods == {"SWAPM_UNDEFINED", "SWAPM_COPY", "SWAPM_EXCHANGE", SWAPM_BUFFER_AGE}

\* ages a driver may report, as unsigned ints: small ones, and the ends of the range
AgeWords ==
    { [hi |-> h, lo |-> l] : h \in {0, 1, 32767, 32768, 65535}, l \in {0, 1, 5, 65535} }

StackWords == { [hi |-> 0, lo |-> 0], [hi |-> 0, lo |-> 7], [hi |-> 65535, lo |-> 65535] }

InitAge ==
    /\ ps \in { [DefaultSession EXCEPT !.glx_swap_method = sm, !.overlay = ov] :
                   sm \in SwapMethods, ov \in {0, 7} }
    /\ fbcfgs = << >>
    /\ IdleBackend
    /\ HarnessIdle

glx_present ==
    /\ calls' = << Call("glXSwapBuffers", get_tgt_window(ps)) >>
    /\ ret' = Ret("glx_present", 0, NULL, NULL)
    /\ UNCHANGED <<gd, xserver, gl, heap, wdata, phase>>
    /\ UnchangedSession

glx_buffer_age ==
    /\ \E wrote \in BOOLEAN, val \in AgeWords, stack \in StackWords :
         LET drv == [wrote |-> wrote, val |-> val, stack |-> stack]
         IN  ret' = Ret("glx_buffer_age", 0, drv, glx_buffer_age_fn(ps, drv))
    /\ calls' = IF ps.glx_swap_method = SWAPM_BUFFER_AGE
                THEN << Call("glXQueryDrawable", get_tgt_window(ps)) >>
                ELSE << >>
    /\ UNCHANGED <<gd, xserver, gl, heap, wdata, phase>>
    /\ UnchangedSession

NextAge == glx_present \/ glx_buffer_age

SpecAge == InitAge /\ [][NextAge]_vars

(***************************************************************************)
(* Harness for drawing one window: init on a display with one depth-24     *)
(* config of any texture-target mask and y-inversion, Create, resizes of   *)
(* the window by the X server, and Compose with a range of offsets and     *)
(* clip regions, the output of one Compose possibly fed to the next.       *)
(***************************************************************************)
DrawLists ==
    { << [Cfg24 EXCEPT !.tgts = t, !.yinv = y] >> : t \in {0, 2, 4, 6}, y \in {0, 1} }

\* clip regions: empty, one rectangle, two bands, one reaching outside the screen,
\* one of no height
DrawRegions ==
    { << >>,
      << [x1 |-> 0, y1 |-> 0, x2 |-> 10, y2 |-> 20] >>,
      << [x1 |-> 0, y1 |-> 0, x2 |-> 10, y2 |-> 20], [x1 |-> 5, y1 |-> 20, x2 |-> 30, y2 |-> 45] >>,
      << [x1 |-> -5, y1 |-> -10, x2 |-> 200, y2 |-> 120] >>,
      << [x1 |-> 1, y1 |-> 7, x2 |-> 2, y2 |-> 7] >> }

\* vertical coordinates over the range of X11 geometry (16 bit), both ends included
EdgeCoords == {-32768, -1, 0, 64, 32767}

\* every one-rectangle region with its two horizontal edges among EdgeCoords
BandRegions ==
    { << [x1 |-> 2, y1 |-> e[1], x2 |-> 9, y2 |-> e[2]] >> :
        e \in {p \in EdgeCoords \X EdgeCoords : p[1] <= p[2]} }

\* buffer sizes of the window: as at the start, and after a resize
WinSizes == { [widthb |-> 30, heightb |-> 40], [widthb |-> 50, heightb |-> 60] }

InitDraw ==
    /\ ps \in { [DefaultSession EXCEPT !.has_name_pixmap = FALSE, !.root_height = h] :
                   h \in {64, 100} }
    /\ fbcfgs \in DrawLists
    /\ IdleBackend
    /\ HarnessIdle

\* the X server resizes window i: the session's win gets the new buffer size
win_resize(i) ==
    /\ \E sz \in WinSizes :
         /\ sz # [widthb |-> wins[i].widthb, heightb |-> wins[i].heightb]
         /\ wins' = [wins EXCEPT ![i].widthb = sz.widthb, ![i].heightb = sz.heightb]
    /\ ret' = Ret("win_resize", i, NULL, NULL)
    /\ calls' = << >>
    /\ UNCHANGED <<ps, fbcfgs, gd, xserver, gl, heap, wdata, phase, cmpIn, cmpOut, selOut>>

\* what the Compose before handed to gl_compose, if its own region was not fed
ComposedBefore(i) ==
    IF ret.op = "glx_compose" /\ ret.w = i /\ ret.arg.prev = NULL
    THEN { [region |-> calls[1].region, prev |-> [region |-> ret.arg.region]] }
    ELSE {}

glx_compose_draw(i) ==
    glx_compose_with(i, {3}, {0, 5}, DrawRegions \cup BandRegions, ComposedBefore(i))

NextDraw ==
    \/ glx_init
    \/ glx_prepare_win(1)
    \/ win_resize(1)
    \/ glx_compose_draw(1)

SpecDraw == InitDraw /\ [][NextDraw]_vars

(***************************************************************************)
(* Properties.                                                             *)
(***************************************************************************)
CallsOf(f, a) == {k \in 1..Len(calls) : calls[k].f = f /\ calls[k].a = a}

CallsNamed(f) == {k \in 1..Len(calls) : calls[k].f = f}

BoundWins == {i \in WinIds : wdata[i] # NULL}

\* C1: after glx_deinit has returned, no binding created earlier still has an
\* allocated GPU texture or GLX pixmap.
C1_DeinitReleasesBindings ==
    ret.op = "glx_deinit" =>
        \A i \in BoundWins :
            /\ wdata[i].texture.texture \notin gl.textures
            /\ wdata[i].glpixmap \notin xserver.glpixmaps

\* C2: after glx_release_win, a pixmap the binding owned (its id differs from the
\* window's) has been freed exactly once, and a borrowed one (the window's own id)
\* has not been freed.  ret.arg is the binding as it was handed to the call.
C2_DestroyFreesOwnedPixmap ==
    ret.op = "glx_release_win" =>
        LET wd == ret.arg
        IN  IF wd.pixmap # wins[ret.w].id
            THEN /\ Cardinality(CallsOf("xcb_free_pixmap", wd.pixmap)) = 1
                 /\ wd.pixmap \notin xserver.pixmaps
            ELSE CallsNamed("xcb_free_pixmap") = {}

\* C3: initialisation is all-or-nothing.  If any hard-fail step of glx_init fails
\* (a failing driver query, zero stencil bits unless stencil use is disabled, an
\* unresolved entry point, no config for the default depth), glx_init returns NULL;
\* and whenever it returns NULL teardown has run: every context it created was
\* destroyed exactly once, no config-table entry, no struct _glx_data and no
\* visual info remains allocated.
C3_InitAllOrNothing ==
    ret.op = "glx_init" =>
        LET f == ret.arg.fail
            hardfail ==
                \/ f \in InitFailPoints \ {"GL_STENCIL_BITS"}
                \/ f = "GL_STENCIL_BITS" /\ ~ps.glx_no_stencil
                \/ ~\E k \in 1..Len(fbcfgs) : RegisteredFor(fbcfgs[k], ps.depth)
        IN  /\ hardfail => ret.val = NULL
            /\ ret.val = NULL =>
                 /\ gd = NULL /\ phase = "down"
                 /\ xserver.contexts = {}
                 /\ heap = {}
                 /\ CallsNamed("gl_free_prog_main") # {}
                 /\ CallsNamed("free_fbconfigs") # {}
                 /\ \A k \in CallsNamed("glXCreateContext") :
                        calls[k].a # 0 =>
                            Cardinality(CallsOf("glXDestroyContext", calls[k].a)) = 1

\* C3 witness: an init that failed after the context was created and a config-table
\* entry was filled (no config for the default depth), and was torn down.
C3_Witness ==
    /\ ret.op = "glx_init" /\ ret.val = NULL /\ ret.arg.fail = "none"
    /\ CallsNamed("glXDestroyContext") # {}
    /\ \E k \in CallsNamed("free_fbconfigs") : calls[k].a > 0

\* C4: glx_prepare_win rolls back on every failure exit.  Whichever step fails
\* (depth above the maximum, no config for the depth, no pixmap identity, GLX pixmap
\* creation, texture allocation) it returns NULL, and when it returns NULL the
\* server's pixmaps and GLX pixmaps, the GL textures and the heap are as before
\* the call, and the window's own id was not freed as a pixmap.
C4_CreateRollsBack ==
    [][ret'.op = "glx_prepare_win" =>
        LET w == wins[ret'.w]
            drv == ret'.arg
            failing ==
                \/ w.depth > OPENGL_MAX_DEPTH
                \/ gd.fbconfigs[w.depth] = NULL
                \/ (IF ps.has_name_pixmap THEN drv.xid = 0 ELSE w.id = 0)
                \/ drv.glpixmap = 0
                \/ drv.texture = 0
        IN  /\ failing => ret'.val = NULL
            /\ ret'.val = NULL =>
                 /\ xserver' = xserver /\ gl' = gl /\ heap' = heap /\ wdata' = wdata
                 /\ \A k \in 1..Len(calls') :
                        calls'[k].f = "xcb_free_pixmap" => calls'[k].a # w.id]_vars

\* C4 witness: a Create that failed at texture allocation, after it had named a
\* pixmap and created the GLX pixmap, and released both.
C4_Witness ==
    /\ ret.op = "glx_prepare_win" /\ ret.val = NULL
    /\ ret.arg.xid # 0 /\ ret.arg.glpixmap # 0 /\ ret.arg.texture = 0
    /\ CallsOf("xcb_free_pixmap", ret.arg.xid) # {}
    /\ CallsOf("glXDestroyPixmap", ret.arg.glpixmap) # {}

\* C5: glx_release_win on a binding a successful Create returned: the texture image
\* is released once, with the texture bound, before the GLX pixmap is destroyed
\* once, before the texture is deleted once; afterwards neither the texture nor the
\* GLX pixmap of the binding is allocated.
C5_DestroyOrder ==
    ret.op = "glx_release_win" =>
        LET wd == ret.arg
            rel == CallsOf("glXReleaseTexImage", wd.glpixmap)
            des == CallsOf("glXDestroyPixmap", wd.glpixmap)
            del == CallsOf("glDeleteTextures", wd.texture.texture)
        IN  /\ Cardinality(rel) = 1 /\ CallsNamed("glXReleaseTexImage") = rel
            /\ Cardinality(des) = 1 /\ CallsNamed("glXDestroyPixmap") = des
            /\ Cardinality(del) = 1 /\ CallsNamed("glDeleteTextures") = del
            /\ \A r \in rel, d \in des, t \in del :
                   /\ r < d /\ d < t
                   /\ r > 1 /\ calls[r - 1] = Call("glBindTexture", wd.texture.texture)
            /\ wd.texture.texture \notin gl.textures
            /\ wd.glpixmap \notin xserver.glpixmaps
            /\ wd.glpixmap \notin gl.teximage

\* C5 witness: a Destroy has run on a binding and made its five driver calls.
C5_Witness ==
    /\ ret.op = "glx_release_win" /\ ret.arg.glpixmap # 0 /\ ret.arg.texture.texture # 0
    /\ Len(calls) = 5

\* C6: every binding the caller holds has a non-zero native pixmap, GLX pixmap and
\* texture name (both handles valid together), and while the backend lives they
\* name allocated objects; the assertions of glx_render_win never fail.
C6_LiveBindingHandles ==
    /\ \A i \in BoundWins :
           /\ wdata[i].pixmap # 0 /\ wdata[i].glpixmap # 0 /\ wdata[i].texture.texture # 0
           /\ phase = "up" => /\ wdata[i].glpixmap \in xserver.glpixmaps
                              /\ wdata[i].texture.texture \in gl.textures
    /\ ret.op = "glx_render_win" => ret.val = NULL

\* C6 witness: a Compose on a binding that has been refreshed.
C6_Witness ==
    /\ ret.op = "glx_compose"
    /\ wdata[ret.w] # NULL
    /\ wdata[ret.w].glpixmap \in gl.teximage

Depths == 0..OPENGL_MAX_DEPTH

\* the candidates of the list that the loop registers under depth d
RegisteredAt(d) == {k \in 1..Len(fbcfgs) : RegisteredFor(fbcfgs[k], d)}

\* C7 as stated: for every pair of non-null configs, whatever their red sizes,
\* glx_cmp_fbconfig(A, B) = -glx_cmp_fbconfig(B, A).
C7_AntisymmetricAnyRed ==
    (cmpOut # NULL /\ cmpIn.a # NULL /\ cmpIn.b # NULL) => cmpOut.ab = 0 - cmpOut.ba

\* C7 amended: for non-null configs of which at least one has a red size of 8,
\* glx_cmp_fbconfig(A, B) = -glx_cmp_fbconfig(B, A); when neither has a red size
\* of 8 the result is -1 in both orders.
C7_AntisymmetricUnlessBothNot8 ==
    (cmpOut # NULL /\ cmpIn.a # NULL /\ cmpIn.b # NULL) =>
        IF cmpIn.a.cfg.red # 8 /\ cmpIn.b.cfg.red # 8
        THEN cmpOut.ab = -1 /\ cmpOut.ba = -1
        ELSE cmpOut.ab = 0 - cmpOut.ba

\* C7 witness: two 8-bit configs that differ in rank were compared in both orders,
\* with a non-zero result.
C7_Witness ==
    /\ cmpOut # NULL /\ cmpIn.a # NULL /\ cmpIn.b # NULL
    /\ cmpIn.a.cfg.red = 8 /\ cmpIn.b.cfg.red = 8
    /\ cmpOut.ab > 0 /\ cmpOut.ba < 0

\* C8: for every depth d and every order of the candidates, if a candidate
\* registered for d has a red size of 8, the config stored for d after selection
\* has a red size of 8.
C8_EightBitWins ==
    selOut # NULL =>
        \A d \in Depths :
            (\E k \in RegisteredAt(d) : fbcfgs[k].red = 8) =>
                /\ selOut.fbconfigs[d] # NULL
                /\ selOut.fbconfigs[d].cfg.red = 8

\* C8 witness: for depth 24 a 10-bit candidate of better rank was enumerated after
\* an 8-bit one, and selection has run.
C8_Witness ==
    /\ selOut # NULL
    /\ \E j, k \in RegisteredAt(24) :
           /\ j < k /\ fbcfgs[j].red = 8 /\ fbcfgs[k].red = 10
           /\ fbcfgs[k].stencil < fbcfgs[j].stencil
    /\ selOut.fbconfigs[24].cfg.red = 8

\* C9 as stated: after selection every config held in the table has a red size
\* of 8.
C9_TableAllEightBit ==
    selOut # NULL =>
        \A d \in Depths : selOut.fbconfigs[d] # NULL => selOut.fbconfigs[d].cfg.red = 8

\* C9 amended: a config held in the table for depth d has a red size other than 8
\* only when no candidate registered for d has a red size of 8, and it is then the
\* last candidate registered for d.
C9_NonEightOnlyWithoutChoice ==
    selOut # NULL =>
        \A d \in Depths :
            (selOut.fbconfigs[d] # NULL /\ selOut.fbconfigs[d].cfg.red # 8) =>
                /\ \A k \in RegisteredAt(d) : fbcfgs[k].red # 8
                /\ RegisteredAt(d) # {}
                /\ \A k \in RegisteredAt(d) : k <= selOut.fbconfigs[d].cfg.id

\* C9 witness: two 10-bit candidates and no 8-bit one were registered for depth 24,
\* and the table holds the later one.
C9_Witness ==
    /\ selOut # NULL
    /\ Cardinality(RegisteredAt(24)) = 2
    /\ selOut.fbconfigs[24] # NULL
    /\ selOut.fbconfigs[24].cfg.red = 10
    /\ selOut.fbconfigs[24].cfg.id = 3

\* the claim's reading of "qualifying for d": not multisampled, and RGB-qualifying
\* (bufferSize - alphaSize = visual depth = d < 32, RGB bind) or RGBA-qualifying
\* (bufferSize = visual depth = d >= 32, RGBA bind); the attributes it names exist
QualifiesAsClaimed(c, d) ==
    /\ c.samples <= 1 /\ c.attr_ok /\ c.tgts_ok /\ c.hasvis
    /\ \/ c.bufsz - c.alpha = c.vdepth /\ c.vdepth = d /\ d < 32 /\ c.rgb # 0
       \/ c.bufsz = c.vdepth /\ c.vdepth = d /\ d >= 32 /\ c.rgba # 0

\* C10 as stated: after selection, every depth d of [0, maxDepth] for which a
\* candidate qualifying in the claim's sense exists has a non-empty table entry.
C10_QualifyingFillsTable ==
    selOut # NULL =>
        \A d \in Depths :
            (\E k \in 1..Len(fbcfgs) : QualifiesAsClaimed(fbcfgs[k], d)) =>
                selOut.fbconfigs[d] # NULL

\* C10 amended: RGBA-qualifying also needs a non-zero alpha size (and the queries of
\* buffer size, alpha size, texture targets and visual must succeed).  Then for all
\* d in [0, maxDepth] the entry for d is non-empty exactly when a qualifying
\* candidate exists, and it holds one config, which is a candidate qualifying for d,
\* in the texture format it qualified for.
C10_TablePerDepth ==
    selOut # NULL =>
        \A d \in Depths :
            /\ RegisteredAt(d) # {} <=> selOut.fbconfigs[d] # NULL
            /\ selOut.fbconfigs[d] # NULL =>
                 \E k \in RegisteredAt(d) :
                    /\ selOut.fbconfigs[d].cfg = [fbcfgs[k] EXCEPT !.id = k]
                    /\ selOut.fbconfigs[d].texture_fmt =
                          IF d < 32 THEN GLX_TEXTURE_FORMAT_RGB_EXT
                          ELSE GLX_TEXTURE_FORMAT_RGBA_EXT

\* C10 witness: candidates qualified for depth 24 and for depth 32, one candidate of
\* the list qualified for nothing, and both entries are filled.
C10_Witness ==
    /\ selOut # NULL
    /\ RegisteredAt(24) # {} /\ RegisteredAt(32) # {}
    /\ \E k \in 1..Len(fbcfgs) : \A d \in Depths : ~RegisteredFor(fbcfgs[k], d)
    /\ selOut.fbconfigs[24] # NULL /\ selOut.fbconfigs[32] # NULL

\* C11: after enumeration, selection reports failure, and with it an initialisation
\* whose driver queries all succeed fails, if and only if the table holds no config
\* for the display's default depth; a missing config for depth 32 alone makes
\* neither fail.
C11_FailsIffNoDefaultDepth ==
    selOut # NULL =>
        /\ ~selOut.ok <=> selOut.fbconfigs[ps.depth] = NULL
        /\ ~selOut.init <=> selOut.fbconfigs[ps.depth] = NULL
        /\ ~selOut.ok <=> RegisteredAt(ps.depth) = {}
        /\ (selOut.fbconfigs[32] = NULL /\ selOut.fbconfigs[ps.depth] # NULL) =>
               selOut.ok /\ selOut.init

\* C11 witness: the default depth is 24, a config was found for it and none for
\* depth 32, and selection and initialisation succeeded.
C11_Witness ==
    /\ selOut # NULL /\ ps.depth = 24
    /\ selOut.fbconfigs[24] # NULL /\ selOut.fbconfigs[32] = NULL
    /\ selOut.ok /\ selOut.init

\* the driver reported the age v and the int n is that number
IsAge(n, v) == n >= 0 /\ n \div 65536 = v.hi /\ n % 65536 = v.lo

\* C12 as stated: glx_buffer_age returns -1 for every reported age when the swap
\* method is not buffer-age tracking; when it is, it returns the reported age if
\* that age is non-zero and -1 if it is zero; it never returns 0.
C12_ReturnsReportedAge ==
    ret.op = "glx_buffer_age" =>
        /\ ret.val # 0
        /\ ps.glx_swap_method # SWAPM_BUFFER_AGE => ret.val = -1
        /\ (ps.glx_swap_method = SWAPM_BUFFER_AGE /\ ret.arg.wrote) =>
               IF ret.arg.val = [hi |-> 0, lo |-> 0] THEN ret.val = -1
               ELSE IsAge(ret.val, ret.arg.val)

\* C12 amended: as stated, but the reported age comes back read as a signed int:
\* it is returned as it is when it is non-zero and below 2^31, and as the negative
\* number age - 2^32 when it is 2^31 or above (the number n with 2^32 - 1 - age =
\* -(n + 1); an age of 2^32 - 1 comes back as the sentinel -1).  It never returns 0.
C12_ReturnsAgeAsSignedInt ==
    ret.op = "glx_buffer_age" =>
        /\ ret.val # 0
        /\ ps.glx_swap_method # SWAPM_BUFFER_AGE => ret.val = -1
        /\ (ps.glx_swap_method = SWAPM_BUFFER_AGE /\ ret.arg.wrote) =>
               IF ret.arg.val = [hi |-> 0, lo |-> 0] THEN ret.val = -1
               ELSE IF ret.arg.val.hi < 32768 THEN IsAge(ret.val, ret.arg.val)
               ELSE /\ ret.val < 0
                    /\ IsAge(0 - (ret.val + 1), [hi |-> 65535 - ret.arg.val.hi,
                                                  lo |-> 65535 - ret.arg.val.lo])
                    /\ (ret.val = -1 <=> ret.arg.val = [hi |-> 65535, lo |-> 65535])

\* C12 witness: under buffer-age tracking the driver reported an age of 5 and 5 was
\* returned.
C12_Witness ==
    /\ ret.op = "glx_buffer_age" /\ ps.glx_swap_method = SWAPM_BUFFER_AGE
    /\ ret.arg.wrote /\ ret.arg.val = [hi |-> 0, lo |-> 5]
    /\ ret.val = 5

\* C13: glx_compose on a binding whose y_inverted is false hands gl_compose a region
\* in which every rectangle (x1, y1, x2, y2) of the clip region became
\* (x1, H - y2, x2, H - y1), H the height of the render target, and the vertical
\* offset H - dst_y - window height; the x extents and dst_x are unchanged.
C13_FlippedRegionAndOffset ==
    (ret.op = "glx_compose" /\ ~ret.arg.wd.texture.y_inverted) =>
        LET H == ps.root_height
            in == ret.arg.region
            out == calls[Len(calls)]
        IN  /\ out.f = "gl_compose"
            /\ Len(out.region) = Len(in)
            /\ \A k \in 1..Len(in) :
                   out.region[k] = [x1 |-> in[k].x1, y1 |-> H - in[k].y2,
                                    x2 |-> in[k].x2, y2 |-> H - in[k].y1]
            /\ out.dst_y = H - ret.arg.dst_y - ret.arg.w.heightb
            /\ out.dst_x = ret.arg.dst_x

\* C13 witness: the region {(0,0)-(10,20)} was composed into a target of height 100
\* with y_inverted false, and gl_compose received {(0,80)-(10,100)}.
C13_Witness ==
    /\ ret.op = "glx_compose" /\ ~ret.arg.wd.texture.y_inverted
    /\ ps.root_height = 100
    /\ ret.arg.region = << [x1 |-> 0, y1 |-> 0, x2 |-> 10, y2 |-> 20] >>
    /\ calls[1].region = << [x1 |-> 0, y1 |-> 80, x2 |-> 10, y2 |-> 100] >>

\* C14: the flip of glx_compose (y1' = H - y2, y2' = H - y1, x unchanged) applied
\* twice against the same height H gives back the original rectangle, for every
\* rectangle and H; and one flip preserves y1 <= y2.  The region handed to
\* gl_compose is composed again: ret.arg.prev is the region it was made from.
C14_FlipRoundTrip ==
    ret.op = "glx_compose" =>
        LET in == ret.arg.region
            out == calls[Len(calls)].region
        IN  /\ ret.arg.prev # NULL => out = ret.arg.prev.region
            /\ \A k \in 1..Len(in) : in[k].y1 <= in[k].y2 => out[k].y1 <= out[k].y2

\* C14 witness: a rectangle with edges at the two ends of the coordinate range was
\* flipped, its flip was flipped again, and the result is not the flipped one.
C14_Witness ==
    /\ ret.op = "glx_compose" /\ ret.arg.prev # NULL
    /\ ret.arg.prev.region = << [x1 |-> 2, y1 |-> -32768, x2 |-> 9, y2 |-> 32767] >>
    /\ ret.arg.region # ret.arg.prev.region
    /\ calls[1].region = ret.arg.prev.region

\* the 2D and the rectangle bit of a texture-target mask (values 2 and 4)
Binds2D(mask) == (mask \div 2) % 2 = 1

BindsRect(mask) == (mask \div 4) % 2 = 1

\* C15: the texture target of Create is 2D exactly when the config supports 2D
\* binding and (the context supports non-power-of-two textures or the config does
\* not support rectangle binding), and rectangle otherwise; that target is the one
\* passed to glXCreatePixmap and the one every binding of the window keeps.
C15_TargetChoice ==
    \A i \in WinIds :
        (gd # NULL /\ wins[i].depth <= OPENGL_MAX_DEPTH /\ gd.fbconfigs[wins[i].depth] # NULL) =>
            LET mask == gd.fbconfigs[wins[i].depth].texture_tgts
                is2D == Binds2D(mask) /\ (gd.cap_npot \/ ~BindsRect(mask))
            IN  /\ wdata[i] # NULL =>
                       wdata[i].texture.target =
                           IF is2D THEN "GL_TEXTURE_2D" ELSE "GL_TEXTURE_RECTANGLE"
                /\ (ret.op = "glx_prepare_win" /\ ret.w = i) =>
                       \A k \in CallsNamed("glXCreatePixmap") :
                           calls[k].tgt = IF is2D THEN "GLX_TEXTURE_2D_EXT"
                                          ELSE "GLX_TEXTURE_RECTANGLE_EXT"

\* C15 witness: without non-power-of-two textures a Create on a config that binds
\* to 2D textures only passed the 2D target to glXCreatePixmap and returned a
\* binding with it.
C15_Witness ==
    /\ ret.op = "glx_prepare_win" /\ ret.val # NULL
    /\ ~gd.cap_npot /\ gd.fbconfigs[24].texture_tgts = 2
    /\ CallsNamed("glXCreatePixmap") # {}
    /\ wdata[ret.w].texture.target = "GL_TEXTURE_2D"

\* C16: whatever resizes of the window happened between Create and Compose, the
\* width and height glx_compose hands to gl_compose, and the height it uses for the
\* flipped vertical offset, are the width and height the binding took at Create.
C16_ComposePassesSnapshot ==
    ret.op = "glx_compose" =>
        LET out == calls[Len(calls)]
            wd == ret.arg.wd
        IN  /\ out.width = wd.texture.width
            /\ out.height = wd.texture.height
            /\ out.dst_y = ps.root_height - ret.arg.dst_y - wd.texture.height

\* every call named f in the log comes before every call named g
Before(f, g) == \A j \in CallsNamed(f), k \in CallsNamed(g) : j < k

\* C17: in every successful glx_init the context is created, then made current on
\* the overlay (the root if there is no overlay), then the stencil bits are checked
\* (unless stencil use is disabled), then non-power-of-two support is detected, then
\* both entry points are resolved, then the configs are selected, then the render
\* state is set up.  In every glx_init, successful or not, the detection follows
\* the creation of a context, and the configs are selected, and table entries
\* written, only after both entry points were resolved non-null.
C17_InitOrder ==
    ret.op = "glx_init" =>
        /\ ret.val # NULL =>
               /\ Cardinality(CallsNamed("glXCreateContext")) = 1
               /\ Cardinality(CallsNamed("glXMakeCurrent")) = 1
               /\ Cardinality(CallsNamed("glGetIntegerv")) = IF ps.glx_no_stencil THEN 0 ELSE 1
               /\ Cardinality(CallsNamed("gl_has_extension")) = 1
               /\ Cardinality(CallsNamed("glXGetProcAddress")) = 2
               /\ Cardinality(CallsNamed("glXGetFBConfigs")) = 1
               /\ Cardinality(CallsNamed("gl_resize")) = 1
               /\ Before("glXCreateContext", "glXMakeCurrent")
               /\ Before("glXMakeCurrent", "glGetIntegerv")
               /\ Before("glXMakeCurrent", "gl_has_extension")
               /\ Before("glGetIntegerv", "gl_has_extension")
               /\ Before("gl_has_extension", "glXGetProcAddress")
               /\ Before("glXGetProcAddress", "glXGetFBConfigs")
               /\ Before("glXGetFBConfigs", "gl_resize")
               /\ Before("glXGetFBConfigs", "glDisable")
               /\ \A k \in CallsNamed("glXMakeCurrent") :
                      calls[k].a = IF ps.overlay # 0 THEN ps.overlay ELSE ps.root
        /\ \A k \in CallsNamed("gl_has_extension") :
               \E j \in CallsNamed("glXCreateContext") : j < k /\ calls[j].a # 0
        /\ Before("gl_has_extension", "glXGetFBConfigs")
        /\ \A k \in CallsNamed("glXGetFBConfigs") :
               Cardinality({j \in CallsOf("glXGetProcAddress", 1) : j < k}) = 2
        /\ CallsNamed("glXGetFBConfigs") = {} =>
               \A k \in CallsNamed("free_fbconfigs") : calls[k].a = 0

\* C17 witness: a successful glx_init with an overlay and with the stencil check.
C17_Witness ==
    /\ ret.op = "glx_init" /\ ret.val # NULL
    /\ ps.overlay # 0 /\ ~ps.glx_no_stencil
    /\ CallsNamed("glGetIntegerv") # {}
    /\ \E d \in Depths : ret.val.fbconfigs[d] # NULL

\* C18: teardown on every state an init failure can leave, and on a fully
\* initialised one: with a null context glXDestroyContext is not called, with a
\* created context it is called exactly once, on that context; whatever entries of
\* the config table are filled, exactly those are freed and every entry is left
\* null; and the context is destroyed only after the entries are freed.
C18_TeardownToleratesPartialInit ==
    ((ret.op = "glx_init" /\ ret.val = NULL) \/ ret.op = "glx_deinit") =>
        LET ctxs == IF ret.op = "glx_deinit" THEN {ret.arg.ctx}
                    ELSE {calls[k].a : k \in CallsNamed("glXCreateContext")}
            filled == IF ret.op = "glx_deinit"
                      THEN {d \in Depths : ret.arg.fbconfigs[d] # NULL}
                      ELSE IF CallsNamed("glXGetFBConfigs") # {}
                           THEN {d \in Depths : RegisteredAt(d) # {}}
                           ELSE {}
        IN  /\ \A c \in ctxs \ {0} :
                   /\ Cardinality(CallsOf("glXDestroyContext", c)) = 1
                   /\ c \notin xserver.contexts
            /\ \A k \in CallsNamed("glXDestroyContext") : calls[k].a \in ctxs \ {0}
            /\ ctxs \ {0} = {} => CallsNamed("glXDestroyContext") = {}
            /\ Cardinality(CallsNamed("free_fbconfigs")) = 1
            /\ \A k \in CallsNamed("free_fbconfigs") :
                   calls[k].freed = filled /\ calls[k].left = {}
            /\ \A b \in heap : b.kind # "fbconfig"
            /\ Before("free_fbconfigs", "glXDestroyContext")

\* C18 witness: an init failed with a context created and a table filled for depth
\* 32 only; teardown freed that entry and then destroyed the context.
C18_Witness ==
    /\ ret.op = "glx_init" /\ ret.val = NULL
    /\ \E k \in CallsNamed("free_fbconfigs") : calls[k].freed = {32}
    /\ CallsNamed("glXDestroyContext") # {}

\* C19: glx_compose leaves its inputs as they were and keeps no scratch state: the
\* caller's clip region has the same rectangles after the call as before, no field
\* of the binding has changed, and the y-flipped copy made for the call has been
\* released (the heap holds what it held before, and no copy of a region).
C19_ComposeLeavesInputs ==
    [][ret'.op = "glx_compose" =>
        /\ ret'.val.region = ret'.arg.region
        /\ wdata' = wdata
        /\ wdata'[ret'.w] = ret'.arg.wd
        /\ heap' = heap
        /\ \A b \in heap' : b.kind # "region_yflipped"
        /\ gd' = gd /\ xserver' = xserver /\ gl' = gl]_vars

\* C19 witness: a Compose of a region of two rectangles has returned; gl_compose was
\* given a region that differs from the caller's, and the caller's is as it was.
C19_Witness ==
    /\ ret.op = "glx_compose" /\ Len(ret.arg.region) = 2
    /\ calls[1].region # ret.arg.region
    /\ ret.val.region = ret.arg.region

\* the ranking as the claim words it: a ranks strictly above b if it has the lower
\* RGBA-bind support, else the lower double-buffering, else the lower stencil
\* size, else the lower depth-buffer size, else the higher mipmap-bind support
StrictlyBeats(a, b) ==
    \/ a.rgba < b.rgba
    \/ a.rgba = b.rgba /\ a.db < b.db
    \/ a.rgba = b.rgba /\ a.db = b.db /\ a.stencil < b.stencil
    \/ a.rgba = b.rgba /\ a.db = b.db /\ a.stencil = b.stencil /\ a.dsize < b.dsize
    \/ a.rgba = b.rgba /\ a.db = b.db /\ a.stencil = b.stencil /\ a.dsize = b.dsize
       /\ a.mipmap > b.mipmap

RankEqual(a, b) ==
    a.rgba = b.rgba /\ a.db = b.db /\ a.stencil = b.stencil /\ a.dsize = b.dsize
    /\ a.mipmap = b.mipmap

\* the candidates registered for depth d that have a red size of 8
EightBitAt(d) == {k \in RegisteredAt(d) : fbcfgs[k].red = 8}

\* C20: for every depth d with 8-bit candidates, whatever the order of enumeration,
\* the config stored for d is one of them that none of them strictly beats, and
\* among those of its rank the first enumerated; all unbeaten ones are of equal
\* rank, so two orders of the same candidates store configs of equal rank.
C20_BestOfEightBit ==
    selOut # NULL =>
        \A d \in Depths :
            EightBitAt(d) # {} =>
                LET stored == selOut.fbconfigs[d].cfg
                IN  /\ stored.id \in EightBitAt(d)
                    /\ stored = [fbcfgs[stored.id] EXCEPT !.id = stored.id]
                    /\ \A j \in EightBitAt(d) : ~StrictlyBeats(fbcfgs[j], stored)
                    /\ \A j \in EightBitAt(d) : RankEqual(fbcfgs[j], stored) => stored.id <= j
                    /\ \A j \in EightBitAt(d) :
                           (\A i \in EightBitAt(d) : ~StrictlyBeats(fbcfgs[i], fbcfgs[j])) =>
                               RankEqual(fbcfgs[j], stored)

\* C20 witness: for depth 24 an 8-bit candidate came first, then two of a better
\* rank that wins on double-buffering against a smaller stencil size; the first of
\* these two is stored.
C20_Witness ==
    /\ selOut # NULL /\ Len(fbcfgs) = 3
    /\ EightBitAt(24) = {1, 2, 3}
    /\ StrictlyBeats(fbcfgs[2], fbcfgs[1])
    /\ fbcfgs[2].db < fbcfgs[1].db /\ fbcfgs[2].stencil > fbcfgs[1].stencil
    /\ RankEqual(fbcfgs[2], fbcfgs[3])
    /\ selOut.fbconfigs[24].cfg.id = 2

\* the binding wd with its y_inverted the other way round, all else equal
OtherYInverted(wd) == [wd EXCEPT !.texture.y_inverted = ~@]

\* what gl_compose is given that places the drawing: the region, the offset, the size
Placement(call) ==
    [region |-> call.region, dst_x |-> call.dst_x, dst_y |-> call.dst_y,
     width |-> call.width, height |-> call.height]

\* C21: the coordinate transformation of glx_compose does not depend on the
\* binding's y_inverted: the same clip region, offset, window size and target height
\* composed with the binding whose y_inverted is the other way round hand gl_compose
\* the same flipped region and the same flipped vertical offset (and the same dst_x,
\* width and height); in both cases the region is the flipped one.
C21_FlipIgnoresYInverted ==
    ret.op = "glx_compose" =>
        LET a == ret.arg
            twin == glx_compose_fn(ps, a.w, OtherYInverted(a.wd), a.dst_x, a.dst_y,
                                   a.region, Machine).m.calls
        IN  /\ Len(calls) = 1 /\ Len(twin) = 1
            /\ calls[1].f = "gl_compose" /\ twin[1].f = "gl_compose"
            /\ twin[1].ptex.y_inverted # calls[1].ptex.y_inverted
            /\ Placement(twin[1]) = Placement(calls[1])
            /\ calls[1].region = yflip_region(ps.root_height, a.region)
            /\ calls[1].dst_y = ps.root_height - a.dst_y - a.w.heightb

\* C21 witness: the config chosen at Create has y_inverted set and the binding copied
\* it; the region {(0,0)-(10,20)} was composed into a target of height 100 at
\* dst_y 5 for a window 40 high, and gl_compose received {(0,80)-(10,100)} and the
\* offset 55, as it does for a binding with y_inverted false.
C21_Witness ==
    /\ ret.op = "glx_compose" /\ ret.arg.wd.texture.y_inverted
    /\ fbcfgs[1].yinv = 1
    /\ ps.root_height = 100 /\ ret.arg.dst_y = 5 /\ ret.arg.w.heightb = 40
    /\ ret.arg.region = << [x1 |-> 0, y1 |-> 0, x2 |-> 10, y2 |-> 20] >>
    /\ calls[1].region = << [x1 |-> 0, y1 |-> 80, x2 |-> 10, y2 |-> 100] >>
    /\ calls[1].dst_y = 55
    /\ calls[1].ptex.y_inverted

====
